---- MODULE Spec2Model ----
\* Model of src/main.cpp: main(), requestAdapterSync(), inspectAdapter() and
\* the completion callback handed to wgpuInstanceRequestAdapter, together with
\* the external WebGPU runtime that decides when (and whether) the callback runs.
\*
\* The two preprocessor configurations (__EMSCRIPTEN__ or not, NDEBUG or not)
\* are chosen in Init.  The callback is modelled statement by statement so the
\* requesting thread can observe the shared UserData record between its two
\* writes; accesses are interleaved at statement granularity.
EXTENDS Integers, Sequences, FiniteSets, TLC

VARIABLES build, ndebug, pc, proc, exitCode, instance, adapter, userData,
          frameLive, outstanding, mode, status, cbAdapter, message, cbpc,
          out, calls, sleeps, ub

vars == <<build, ndebug, pc, proc, exitCode, instance, adapter, userData,
          frameLive, outstanding, mode, status, cbAdapter, message, cbpc,
          out, calls, sleeps, ub>>

\* ---------------------------------------------------------------- values
NULL == "null"
InstanceHandles == {"I1"}
AdapterHandles == {"A1"}
Success == "Success"
Statuses == {Success, "Unavailable", "Error"}
NoMsg == "nomsg"
Messages == {NoMsg, "no suitable adapter"}
Builds == {"emscripten", "native"}
\* how the runtime delivers the completion callback
Modes == {"sync", "thread", "loop", "never"}
FeatureLists == {<<>>, <<"1", "2a">>}
\* cap on the counted iterations of the emscripten wait loop
MaxSleeps == 2

\* ---------------------------------------------------------------- helpers
\* struct UserData { adapter = nullptr; requestEnded = false; }
UserDataInit == [adapter |-> NULL, requestEnded |-> FALSE]

\* wgpu::StringView(message) streamed to std::cout: an absent message prints
\* as the empty string
StringViewText(msg) == IF msg = NoMsg THEN "" ELSE msg

\* if (status == Success) userData.adapter = adapter;
CallbackStore_unconditional(ud, st, a) == [ud EXCEPT !.adapter = a]
CallbackStore_flagFirst(ud, st, a) == [ud EXCEPT !.requestEnded = TRUE]
CallbackStore(ud, st, a) ==
  IF st = Success THEN [ud EXCEPT !.adapter = a] ELSE ud

\* else std::cout << "Could not get WebGPU adapter: " << StringView(message)
CallbackDiag(st, msg) ==
  IF st = Success THEN <<>>
  ELSE << <<"Could not get WebGPU adapter: ", StringViewText(msg)>> >>

\* userData.requestEnded = true;
CallbackEnd(ud) == [ud EXCEPT !.requestEnded = TRUE]

\* one call of wgpuInstanceRequestAdapter puts one request in flight
IssueRequest_twice(n) == n + 2
IssueRequest(n) == n + 1

\* if (!instance) in main
InstanceMissing_unchecked(inst) == FALSE
InstanceMissing(inst) == inst = NULL

\* main, after requestAdapterSync returns: inspectAdapter(adapter) with no test
AfterRequest_guarded(a) == IF a = NULL THEN "release_instance" ELSE "inspect_limits"
AfterRequest(a) == "inspect_limits"

\* assert(userData.requestEnded): compiled out under NDEBUG
AssertPasses(nd, ud) == nd \/ ud.requestEnded

Call(fn, h) == <<fn, h>>

\* ---------------------------------------------------------------- Init
Init ==
  /\ build \in Builds
  /\ ndebug \in BOOLEAN
  /\ pc = "create"
  /\ proc = "running"
  /\ exitCode = -1
  /\ instance = NULL
  /\ adapter = NULL
  /\ userData = UserDataInit
  /\ frameLive = FALSE
  /\ outstanding = 0
  /\ mode = "never"
  /\ status = Success
  /\ cbAdapter = NULL
  /\ message = NoMsg
  /\ cbpc = "idle"
  /\ out = <<>>
  /\ calls = <<>>
  /\ sleeps = 0
  /\ ub = FALSE

\* ---------------------------------------------------------------- main
\* WGPUInstance instance = wgpuCreateInstance(nullptr);
CreateInstance ==
  /\ proc = "running" /\ pc = "create"
  /\ \E r \in InstanceHandles \cup {NULL} :
       /\ instance' = r
       /\ calls' = Append(calls, Call("wgpuCreateInstance", NULL))
  /\ pc' = "check"
  /\ UNCHANGED <<build, ndebug, proc, exitCode, adapter, userData, frameLive,
                 outstanding, mode, status, cbAdapter, message, cbpc, out,
                 sleeps, ub>>

\* if (!instance) { cerr << ...; return 1; }  then the two announcements
CheckInstance ==
  /\ proc = "running" /\ pc = "check"
  /\ IF InstanceMissing(instance)
       THEN /\ out' = Append(out, <<"Could not initialize WebGPU!">>)
            /\ exitCode' = 1
            /\ proc' = "exited"
            /\ pc' = "exit1"
       ELSE /\ out' = out \o << <<"WGPU instance: ", instance>>,
                                <<"Requesting adapter...">> >>
            /\ pc' = "ras_entry"
            /\ UNCHANGED <<exitCode, proc>>
  /\ UNCHANGED <<build, ndebug, instance, adapter, userData, frameLive,
                 outstanding, mode, status, cbAdapter, message, cbpc, calls,
                 sleeps, ub>>

\* requestAdapterSync entry: UserData userData;
RasEntry ==
  /\ proc = "running" /\ pc = "ras_entry"
  /\ userData' = UserDataInit
  /\ frameLive' = TRUE
  /\ pc' = "ras_request"
  /\ UNCHANGED <<build, ndebug, proc, exitCode, instance, adapter,
                 outstanding, mode, status, cbAdapter, message, cbpc, out,
                 calls, sleeps, ub>>

\* wgpuInstanceRequestAdapter(instance, options, callback...): the runtime
\* decides how it will deliver and what it will report.  The handle passed to
\* the callback is valid on Success and unspecified otherwise.
RasRequest ==
  /\ proc = "running" /\ pc = "ras_request"
  /\ \E m \in Modes, st \in Statuses, a \in AdapterHandles \cup {NULL},
        msg \in Messages :
       /\ st = Success => a # NULL
       /\ mode' = m /\ status' = st /\ cbAdapter' = a /\ message' = msg
       /\ pc' = IF m = "sync" THEN "ras_in_call" ELSE "ras_after_call"
  /\ outstanding' = IssueRequest(outstanding)
  /\ cbpc' = "pending"
  /\ calls' = Append(calls, Call("wgpuInstanceRequestAdapter", instance))
  /\ UNCHANGED <<build, ndebug, proc, exitCode, instance, adapter, userData,
                 frameLive, out, sleeps, ub>>

\* synchronous delivery: the request call returns once the callback has run
RasCallReturns ==
  /\ proc = "running" /\ pc = "ras_in_call"
  /\ cbpc = "done"
  /\ pc' = "ras_after_call"
  /\ UNCHANGED <<build, ndebug, proc, exitCode, instance, adapter, userData,
                 frameLive, outstanding, mode, status, cbAdapter, message,
                 cbpc, out, calls, sleeps, ub>>

\* #ifdef __EMSCRIPTEN__ : go to the wait loop; otherwise straight to assert
RasAfterCall ==
  /\ proc = "running" /\ pc = "ras_after_call"
  /\ pc' = IF build = "emscripten" THEN "ras_wait" ELSE "ras_assert"
  /\ UNCHANGED <<build, ndebug, proc, exitCode, instance, adapter, userData,
                 frameLive, outstanding, mode, status, cbAdapter, message,
                 cbpc, out, calls, sleeps, ub>>

\* while (!userData.requestEnded) { emscripten_sleep(100); }
RasWaitTest ==
  /\ proc = "running" /\ pc = "ras_wait"
  /\ IF userData.requestEnded
       THEN pc' = "ras_assert" /\ sleeps' = sleeps
       ELSE /\ pc' = "ras_sleep"
            /\ sleeps' = IF sleeps < MaxSleeps THEN sleeps + 1 ELSE sleeps
  /\ UNCHANGED <<build, ndebug, proc, exitCode, instance, adapter, userData,
                 frameLive, outstanding, mode, status, cbAdapter, message,
                 cbpc, out, calls, ub>>

\* emscripten_sleep returns; a callback run by the event loop during the
\* sleep runs to completion before control comes back
RasSleepReturns ==
  /\ proc = "running" /\ pc = "ras_sleep"
  /\ ~(mode = "loop" /\ cbpc \in {"cb_if", "cb_set"})
  /\ pc' = "ras_wait"
  /\ UNCHANGED <<build, ndebug, proc, exitCode, instance, adapter, userData,
                 frameLive, outstanding, mode, status, cbAdapter, message,
                 cbpc, out, calls, sleeps, ub>>

\* assert(userData.requestEnded);
RasAssert ==
  /\ proc = "running" /\ pc = "ras_assert"
  /\ IF AssertPasses(ndebug, userData)
       THEN pc' = "ras_return" /\ proc' = proc
       ELSE pc' = "abort" /\ proc' = "aborted"
  /\ UNCHANGED <<build, ndebug, exitCode, instance, adapter, userData,
                 frameLive, outstanding, mode, status, cbAdapter, message,
                 cbpc, out, calls, sleeps, ub>>

\* return userData.adapter;  the frame holding userData dies; main prints
\* "Got adapter: " and goes on to inspectAdapter(adapter)
RasReturn ==
  /\ proc = "running" /\ pc = "ras_return"
  /\ adapter' = userData.adapter
  /\ frameLive' = FALSE
  /\ out' = Append(out, <<"Got adapter: ", userData.adapter>>)
  /\ pc' = AfterRequest(userData.adapter)
  /\ UNCHANGED <<build, ndebug, proc, exitCode, instance, userData,
                 outstanding, mode, status, cbAdapter, message, cbpc, calls,
                 sleeps, ub>>

\* inspectAdapter: wgpuAdapterGetLimits and the limits section, printed only
\* when the query reports success
InspectLimits ==
  /\ proc = "running" /\ pc = "inspect_limits"
  /\ calls' = Append(calls, Call("wgpuAdapterGetLimits", adapter))
  /\ \E success \in BOOLEAN :
       out' = IF success
                THEN out \o << <<"Adapter limits:">>,
                               <<" - maxTextureDimension1D: ">>,
                               <<" - maxTextureDimension2D: ">>,
                               <<" - maxTextureDimension3D: ">>,
                               <<" - maxTextureArrayLayers: ">> >>
                ELSE out
  /\ pc' = "inspect_features"
  /\ UNCHANGED <<build, ndebug, proc, exitCode, instance, adapter, userData,
                 frameLive, outstanding, mode, status, cbAdapter, message,
                 cbpc, sleeps, ub>>

\* inspectAdapter: the feature list.  Emscripten enumerates twice (count, then
\* data); native calls wgpuAdapterGetFeatures and frees the returned members.
InspectFeatures ==
  /\ proc = "running" /\ pc = "inspect_features"
  /\ calls' = IF build = "emscripten"
                THEN calls \o << Call("wgpuAdapterEnumerateFeatures", adapter),
                                 Call("wgpuAdapterEnumerateFeatures", adapter) >>
                ELSE calls \o << Call("wgpuAdapterGetFeatures", adapter),
                                 Call("wgpuSupportedFeaturesFreeMembers", NULL) >>
  /\ \E fs \in FeatureLists :
       out' = out \o << <<"Adapter features:">> >>
                  \o [i \in 1..Len(fs) |-> <<" - 0x", fs[i]>>]
  /\ pc' = "inspect_info"
  /\ UNCHANGED <<build, ndebug, proc, exitCode, instance, adapter, userData,
                 frameLive, outstanding, mode, status, cbAdapter, message,
                 cbpc, sleeps, ub>>

\* inspectAdapter: wgpuAdapterGetInfo, the properties section, FreeMembers
InspectInfo ==
  /\ proc = "running" /\ pc = "inspect_info"
  /\ calls' = calls \o << Call("wgpuAdapterGetInfo", adapter),
                          Call("wgpuAdapterInfoFreeMembers", NULL) >>
  /\ out' = Append(out, <<"Adapter properties:">>)
  /\ pc' = "release_instance"
  /\ UNCHANGED <<build, ndebug, proc, exitCode, instance, adapter, userData,
                 frameLive, outstanding, mode, status, cbAdapter, message,
                 cbpc, sleeps, ub>>

\* wgpuInstanceRelease(instance);
ReleaseInstance ==
  /\ proc = "running" /\ pc = "release_instance"
  /\ calls' = Append(calls, Call("wgpuInstanceRelease", instance))
  /\ pc' = "release_adapter"
  /\ UNCHANGED <<build, ndebug, proc, exitCode, instance, adapter, userData,
                 frameLive, outstanding, mode, status, cbAdapter, message,
                 cbpc, out, sleeps, ub>>

\* wgpuAdapterRelease(adapter);
ReleaseAdapter ==
  /\ proc = "running" /\ pc = "release_adapter"
  /\ calls' = Append(calls, Call("wgpuAdapterRelease", adapter))
  /\ pc' = "return0"
  /\ UNCHANGED <<build, ndebug, proc, exitCode, instance, adapter, userData,
                 frameLive, outstanding, mode, status, cbAdapter, message,
                 cbpc, out, sleeps, ub>>

\* return 0;
Return0 ==
  /\ proc = "running" /\ pc = "return0"
  /\ exitCode' = 0
  /\ proc' = "exited"
  /\ pc' = "exit0"
  /\ UNCHANGED <<build, ndebug, instance, adapter, userData, frameLive,
                 outstanding, mode, status, cbAdapter, message, cbpc, out,
                 calls, sleeps, ub>>

\* An adapter call on a null handle is outside the API's contract: it may
\* return (the actions above) or bring the process down.
NullHandleCrash ==
  /\ proc = "running"
  /\ pc \in {"inspect_limits", "inspect_features", "inspect_info",
             "release_adapter"}
  /\ adapter = NULL
  /\ proc' = "crashed"
  /\ UNCHANGED <<build, ndebug, pc, exitCode, instance, adapter, userData,
                 frameLive, outstanding, mode, status, cbAdapter, message,
                 cbpc, out, calls, sleeps, ub>>

\* ---------------------------------------------------------------- callback
\* when the runtime may start the callback of the pending request
DeliveryEnabled ==
  IF mode = "sync" THEN pc = "ras_in_call"
  ELSE IF mode = "thread" THEN TRUE
  ELSE IF mode = "loop" THEN pc = "ras_sleep"
  ELSE FALSE

\* the runtime invokes the callback: UserData& userData = *userdata1;
CbStart ==
  /\ proc = "running" /\ cbpc = "pending"
  /\ DeliveryEnabled
  /\ cbpc' = "cb_if"
  /\ UNCHANGED <<build, ndebug, pc, proc, exitCode, instance, adapter,
                 userData, frameLive, outstanding, mode, status, cbAdapter,
                 message, out, calls, sleeps, ub>>

\* if (status == Success) userData.adapter = adapter; else cout << ...
\* A store through userdata1 after requestAdapterSync has returned hits a dead
\* frame: it may go unnoticed or crash the process.
CbIf ==
  /\ proc = "running" /\ cbpc = "cb_if"
  /\ userData' = IF frameLive THEN CallbackStore(userData, status, cbAdapter)
                 ELSE userData
  /\ out' = out \o CallbackDiag(status, message)
  /\ LET dangling == ~frameLive /\ status = Success IN
       /\ ub' = (ub \/ dangling)
       /\ \E crash \in BOOLEAN :
            proc' = IF dangling /\ crash THEN "crashed" ELSE proc
  /\ cbpc' = "cb_set"
  /\ UNCHANGED <<build, ndebug, pc, exitCode, instance, adapter, frameLive,
                 outstanding, mode, status, cbAdapter, message, calls,
                 sleeps>>

\* userData.requestEnded = true;  the request is no longer outstanding
CbSet ==
  /\ proc = "running" /\ cbpc = "cb_set"
  /\ userData' = IF frameLive THEN CallbackEnd(userData) ELSE userData
  /\ ub' = (ub \/ ~frameLive)
  /\ \E crash \in BOOLEAN :
       proc' = IF ~frameLive /\ crash THEN "crashed" ELSE proc
  /\ outstanding' = outstanding - 1
  /\ cbpc' = "done"
  /\ UNCHANGED <<build, ndebug, pc, exitCode, instance, adapter, frameLive,
                 mode, status, cbAdapter, message, out, calls, sleeps>>

\* ---------------------------------------------------------------- spec
Next ==
  \/ CreateInstance
  \/ CheckInstance
  \/ RasEntry
  \/ RasRequest
  \/ RasCallReturns
  \/ RasAfterCall
  \/ RasWaitTest
  \/ RasSleepReturns
  \/ RasAssert
  \/ RasReturn
  \/ InspectLimits
  \/ InspectFeatures
  \/ InspectInfo
  \/ ReleaseInstance
  \/ ReleaseAdapter
  \/ Return0
  \/ NullHandleCrash
  \/ CbStart
  \/ CbIf
  \/ CbSet

Spec == Init /\ [][Next]_vars

\* shape of the state
TypeOK ==
  /\ build \in Builds /\ ndebug \in BOOLEAN
  /\ proc \in {"running", "exited", "aborted", "crashed"}
  /\ exitCode \in {-1, 0, 1}
  /\ instance \in InstanceHandles \cup {NULL}
  /\ adapter \in AdapterHandles \cup {NULL}
  /\ userData.adapter \in AdapterHandles \cup {NULL}
  /\ userData.requestEnded \in BOOLEAN
  /\ outstanding \in 0..2
  /\ mode \in Modes /\ status \in Statuses /\ message \in Messages
  /\ cbpc \in {"idle", "pending", "cb_if", "cb_set", "done"}
  /\ sleeps \in 0..(MaxSleeps + 1)

\* ---------------------------------------------------------------- properties
\* control points of main after requestAdapterSync has returned
PostReturn == {"inspect_limits", "inspect_features", "inspect_info",
               "release_instance", "release_adapter", "return0", "exit0"}

HasCall(c) == \E i \in 1..Len(calls) : calls[i] = c
CountCall(c) == Cardinality({i \in 1..Len(calls) : calls[i] = c})
LineHas(line, tok) == \E j \in 1..Len(line) : line[j] = tok
HasLine(line) == \E i \in 1..Len(out) : out[i] = line
\* the callback has taken its branch on the status
CallbackReported == cbpc \in {"cb_set", "done"}
\* no call is made on a non-null handle after the call that released it
NoUseAfterRelease ==
  \A i \in 1..Len(calls) :
    (calls[i][1] \in {"wgpuInstanceRelease", "wgpuAdapterRelease"}
       /\ calls[i][2] # NULL)
      => \A j \in (i + 1)..Len(calls) : calls[j][2] # calls[i][2]

\* C1: requestAdapterSync reaches its return statement only once the
\* completion callback has run, i.e. with requestEnded true, however the
\* runtime delivers the callback.
C1_ReturnOnlyAfterCallback ==
  pc = "ras_return" => userData.requestEnded

\* C2: whenever inspectAdapter is entered, the instance handle has already
\* been released (release sits between the adapter request and inspection).
C2_InstanceReleasedBeforeInspect ==
  pc = "inspect_limits" => HasCall(Call("wgpuInstanceRelease", instance))

\* C3 (as stated): after a callback with a status other than Success, the
\* returned handle is null and a printed line contains the failure status and
\* the failure message.
C3_DiagnosticHasStatus ==
  (status # Success /\ CallbackReported) =>
    /\ \E i \in 1..Len(out) :
         LineHas(out[i], status) /\ LineHas(out[i], StringViewText(message))
    /\ pc \in PostReturn => adapter = NULL

\* C3 (amended): after a callback with a status other than Success, the stored
\* and the returned handle are null and the line "Could not get WebGPU
\* adapter: <message>" has been printed; no printed line carries the status.
C3_FailureNullAndMessage ==
  status # Success =>
    /\ CallbackReported =>
         /\ HasLine(<<"Could not get WebGPU adapter: ", StringViewText(message)>>)
         /\ \A i \in 1..Len(out) : ~LineHas(out[i], status)
         /\ userData.adapter = NULL
    /\ pc \in PostReturn => adapter = NULL

C3_Witness ==
  /\ status # Success /\ cbpc = "done" /\ message # NoMsg
  /\ cbAdapter # NULL
  /\ pc \in PostReturn /\ adapter = NULL

\* C4: when the callback reports Success, requestAdapterSync returns the
\* delivered, non-null handle and the completion flag has been set.
C4_SuccessReturnsDelivered ==
  (status = Success /\ CallbackReported /\ pc \in PostReturn) =>
    /\ adapter = cbAdapter /\ adapter # NULL
    /\ cbpc = "done" => userData.requestEnded

\* every API step succeeded: instance created, callback reported Success,
\* limits query succeeded
AllSucceed ==
  /\ instance # NULL
  /\ status = Success /\ cbpc = "done"
  /\ pc \in {"release_instance", "release_adapter", "return0", "exit0"}
       => HasLine(<<"Adapter limits:">>)

\* C5: when every API step succeeds and main has terminated, it exited with
\* status 0, having released the instance once and the delivered adapter
\* once, with no use of a handle after its release.
C5_CleanRunReleasesOnce ==
  AllSucceed =>
    /\ proc # "aborted"
    /\ proc = "exited" =>
         /\ exitCode = 0
         /\ CountCall(Call("wgpuInstanceRelease", instance)) = 1
         /\ CountCall(Call("wgpuAdapterRelease", cbAdapter)) = 1
         /\ NoUseAfterRelease

\* C6: when wgpuCreateInstance returned null, main has printed the error and
\* exited with status 1; no request, inspection or release call was made.
C6_NullInstanceExits1 ==
  (instance = NULL /\ pc \notin {"create", "check"}) =>
    /\ proc = "exited" /\ exitCode = 1 /\ pc = "exit1"
    /\ calls = << Call("wgpuCreateInstance", NULL) >>
    /\ out = << <<"Could not initialize WebGPU!">> >>
    /\ outstanding = 0 /\ cbpc = "idle"

C6_Witness ==
  pc = "exit1" /\ exitCode = 1 /\ instance = NULL

\* C7: at most one adapter request is outstanding, and requestEnded, once
\* true, stays true.
C7_OneRequestFlagMonotone ==
  [][ /\ outstanding' <= 1
      /\ userData.requestEnded => userData'.requestEnded ]_vars

C7_Witness ==
  userData.requestEnded /\ outstanding = 0 /\ cbpc = "done" /\ pc = "exit0"

\* C8: when the runtime never invokes the callback of the issued request,
\* requestAdapterSync does not return: the process keeps running and main
\* stays before inspection, release and exit.
C8_NoCallbackHangs ==
  (mode = "never" /\ cbpc = "pending") =>
    /\ proc = "running"
    /\ pc \notin PostReturn

\* C9: after a failed adapter request main goes on with the null handle: it
\* has no exit-1 or abort path, calls the inspection queries and then
\* wgpuAdapterRelease on the null handle, and exits with status 0.
C9_FailedRequestContinues ==
  (status # Success /\ cbpc = "done" /\ pc \in PostReturn) =>
    /\ adapter = NULL
    /\ exitCode # 1 /\ proc # "aborted"
    /\ pc \in {"release_instance", "release_adapter", "return0", "exit0"} =>
         /\ HasCall(Call("wgpuAdapterGetLimits", NULL))
         /\ HasCall(Call("wgpuAdapterGetInfo", NULL))
    /\ pc \in {"return0", "exit0"} =>
         \E i, j \in 1..Len(calls) :
           /\ i < j
           /\ calls[i] = Call("wgpuAdapterGetInfo", NULL)
           /\ calls[j] = Call("wgpuAdapterRelease", NULL)
    /\ pc = "exit0" => (proc = "exited" /\ exitCode = 0)

C9_Witness ==
  /\ status # Success /\ cbpc = "done"
  /\ pc = "exit0" /\ exitCode = 0
  /\ HasCall(Call("wgpuAdapterGetLimits", NULL))
  /\ HasCall(Call("wgpuAdapterRelease", NULL))

\* the value the adapter field ends with
FinalAdapter == IF status = Success THEN cbAdapter ELSE NULL

\* C10: whenever requestEnded is true the adapter field holds its final value
\* (delivered handle on Success, null otherwise), and it does not change
\* from then on.
C10_AdapterFinalWhenEnded ==
  [][ /\ userData'.requestEnded => userData'.adapter = FinalAdapter'
      /\ userData.requestEnded => userData'.adapter = userData.adapter ]_vars

C10_Witness ==
  /\ userData.requestEnded /\ status = Success
  /\ userData.adapter = cbAdapter /\ mode = "thread" /\ pc = "ras_wait"
====
